---- MODULE Spec2Model ----
(***************************************************************************)
(* Model of src/pwnzero/PwnZero.py: the PwnZero plugin that frames status  *)
(* parameters ([START, param, payload..., END]) and writes them to the     *)
(* Flipper Zero over a pyserial connection.                                *)
(*                                                                         *)
(* Strings are sequences of characters; a character is a token whose code  *)
(* point is given by Ord.  Python's None / str / int / tuple values of the *)
(* ui mapping are records [t, a, b].                                       *)
(***************************************************************************)
EXTENDS Integers, Sequences, FiniteSets, TLC

VARIABLES
    obj,          \* "none" (not constructed), "live" (instance exists), "failed" (__init__ raised)
    is_open,      \* self._serialConn is an open port
    openAttempts, \* number of serial.Serial(port, baud) calls made by __init__
    openFailed,   \* the device could not be opened when __init__ tried
    closeCalled,  \* close() has been called on the instance
    raised,       \* exception the last handler propagated to its caller, "none" if it returned
    wire,         \* every byte the transport has accepted, in order
    sent,         \* history: frames of the calls that returned True, concatenated in call order
    allComplete,  \* history: every transport write so far was a complete one
    last,         \* history: the last _send_data / set_* call and what the transport saw of it
    nCalls,       \* number of set_* / _send_data calls made so far
    pc,           \* position inside on_ui_update ("idle" outside of it)
    tickIn,       \* values on_ui_update has read from ui in the current tick, by key
    tickLog,      \* sends attempted by the current tick, in order
    nTicks        \* number of on_ui_update calls started

vars == <<obj, is_open, openAttempts, openFailed, closeCalled, raised, wire, sent,
          allComplete, last, nCalls, pc, tickIn, tickLog, nTicks>>

----------------------------------------------------------------------------
(* Bounds *)

\* set_* / _send_data calls explored when the API is driven directly (Spec)
MaxCalls == 2
\* on_ui_update calls explored (SpecUI)
MaxTicks == 1

----------------------------------------------------------------------------
(* Enumerations and protocol constants *)

PwnZeroParam ==
    [FACE |-> 4, NAME |-> 5, CHANNEL |-> 6, APS |-> 7, UPTIME |-> 8, FRIEND |-> 9,
     MODE |-> 10, HANDSHAKES |-> 11, MESSAGE |-> 12]

PwnMode == [MANU |-> 4, AUTO |-> 5, AI |-> 6]

PwnFace ==
    [NO_FACE |-> 4, DEFAULT_FACE |-> 5, LOOK_R |-> 6, LOOK_L |-> 7, LOOK_R_HAPPY |-> 8,
     LOOK_L_HAPPY |-> 9, SLEEP |-> 10, SLEEP2 |-> 11, AWAKE |-> 12, BORED |-> 13,
     INTENSE |-> 14, COOL |-> 15, HAPPY |-> 16, GRATEFUL |-> 17, EXCITED |-> 18,
     MOTIVATED |-> 19, DEMOTIVATED |-> 20, SMART |-> 21, LONELY |-> 22, SAD |-> 23,
     ANGRY |-> 24, FRIEND |-> 25, BROKEN |-> 26, DEBUG |-> 27, UPLOAD |-> 28,
     UPLOAD1 |-> 29, UPLOAD2 |-> 30]

PROTOCOL_START == 2
PROTOCOL_END == 3

----------------------------------------------------------------------------
(* Characters and strings *)

\* the characters the inputs are built from; "U+00FF" and "U+0100" are the
\* characters with code points 255 and 256
Chars == {"A", ">", " ", "(", ")", "7", "U+00FF", "U+0100"}

\* ord(c)
Ord ==
    [c \in Chars |->
        CASE c = "A" -> 65
          [] c = ">" -> 62
          [] c = " " -> 32
          [] c = "(" -> 40
          [] c = ")" -> 41
          [] c = "7" -> 55
          [] c = "U+00FF" -> 255
          [] c = "U+0100" -> 256]

\* strings handed to the string operations: the empty string, a string that
\* holds '>' and the largest valid code point, and a string whose second
\* character is out of range
StrInputs == {<<>>, <<"A", ">", "U+00FF">>, <<"A", "U+0100">>}

ModeInputs == {"MANU", "AUTO", "AI"}

FaceInputs == {"NO_FACE", "DEFAULT_FACE", "UPLOAD2"}

\* out-of-range and in-range parameter bytes for a direct _send_data call
RawParams == {-1, 256, 9}

----------------------------------------------------------------------------
(* Pure helpers *)

_is_byte_off_by_one(i) == 0 <= i /\ i <= 256

_is_byte(i) == 0 <= i /\ i < 256

_str_to_bytes(s) == [k \in 1..Len(s) |-> Ord[s[k]]]

BuildFrame_no_end(param, args) == <<PROTOCOL_START, param>> \o args

\* data = [PROTOCOL_START]; data.append(param); data.append(arg)...; data.append(PROTOCOL_END)
BuildFrame(param, args) == <<PROTOCOL_START, param>> \o args \o <<PROTOCOL_END>>

\* bytes(data) raises ValueError unless every element is in range(256)
BytesOk(data) == \A k \in 1..Len(data) : data[k] >= 0 /\ data[k] <= 255

WriteComplete_nonzero(written, data_bytes) == written > 0

\* written == len(data_bytes)
WriteComplete(written, data_bytes) == written = Len(data_bytes)

\* what self._serialConn.write(data_bytes) can do: return the number of bytes
\* written (all of them, none, or all but the last), or raise an I/O error
\* after none or all but the last of them went out.  A closed port raises
\* without writing anything.
serialConn_write(data_bytes) ==
    IF is_open
    THEN {[kind |-> "return", n |-> Len(data_bytes), exc |-> "none"],
          [kind |-> "return", n |-> 0, exc |-> "none"],
          [kind |-> "return", n |-> Len(data_bytes) - 1, exc |-> "none"],
          [kind |-> "raise", n |-> 0, exc |-> "SerialException"],
          [kind |-> "raise", n |-> Len(data_bytes) - 1, exc |-> "SerialException"]}
    ELSE {[kind |-> "raise", n |-> 0, exc |-> "PortNotOpenError"]}

\* a call as the caller made it: the method and its argument (a string, or the
\* name of the face or mode)
Op(name, input) == [name |-> name, input |-> input]

NoCall == [op |-> Op("none", <<>>), param |-> 0, args |-> <<>>, ret |-> "none", calls |-> 0,
           data |-> <<>>, kind |-> "none", written |-> 0, wasOpen |-> FALSE]

----------------------------------------------------------------------------
(* History bookkeeping shared by the operations *)

StringOps == {"set_name", "set_channel", "set_aps", "set_uptime", "set_handshakes",
              "set_message"}

\* the parameter id each operation stands for on the wire
WireParamId ==
    [set_face |-> 4, set_name |-> 5, set_channel |-> 6, set_aps |-> 7, set_uptime |-> 8,
     set_mode |-> 10, set_handshakes |-> 11, set_message |-> 12]

\* the parameter byte and the payload a call asks for, from its arguments alone
WireParam(op, param) == IF op.name \in DOMAIN WireParamId THEN WireParamId[op.name] ELSE param

WirePayload(op) ==
    CASE op.name = "set_face" -> <<PwnFace[op.input[1]]>>
      [] op.name = "set_mode" -> <<PwnMode[op.input[1]]>>
      [] op.name \in StringOps -> [k \in 1..Len(op.input) |-> Ord[op.input[k]]]
      [] OTHER -> <<>>

InRange(i) == i \in 0..255

\* the call asks for a frame all of whose bytes are in range
WireValid(op, param) ==
    /\ op.name # "set_friend"
    /\ InRange(WireParam(op, param))
    /\ \A k \in 1..Len(WirePayload(op)) : InRange(WirePayload(op)[k])

\* the frame the wire format assigns to the call
WireFrame(op, param) == <<2, WireParam(op, param)>> \o WirePayload(op) \o <<3>>

\* a call that returned without reaching the transport
ReturnsWithoutWrite(op, param, args, ret, exc) ==
    /\ last' = [op |-> op, param |-> param, args |-> args, ret |-> ret, calls |-> 0,
                data |-> <<>>, kind |-> "none", written |-> 0, wasOpen |-> is_open]
    /\ raised' = exc
    /\ nCalls' = nCalls + 1
    /\ UNCHANGED <<wire, sent, allComplete>>

\* a call that handed data to the transport `calls` times and got outcome o
\* (n bytes accepted in total)
ReturnsAfterWrite(op, param, args, data, o, calls, ret) ==
    /\ last' = [op |-> op, param |-> param, args |-> args, ret |-> ret, calls |-> calls,
                data |-> data, kind |-> o.kind, written |-> o.n, wasOpen |-> is_open]
    /\ raised' = o.exc
    /\ nCalls' = nCalls + 1
    /\ wire' = wire \o SubSeq(data, 1, o.n)
    /\ allComplete' = (allComplete /\ o.kind = "return" /\ o.n = Len(data))
    /\ sent' = IF ret = "true" THEN sent \o WireFrame(op, param) ELSE sent

Bool(b) == IF b THEN "true" ELSE "false"

----------------------------------------------------------------------------
(* _send_data *)

\* a variant that, after a short write, hands the rest of the frame to the
\* transport in a second call
_send_data_retry(op, param, args) ==
    IF ~_is_byte(param) \/ \E k \in 1..Len(args) : ~_is_byte(args[k])
    THEN ReturnsWithoutWrite(op, param, args, "false", "none")
    ELSE LET data == BuildFrame(param, args) IN
         \E o \in serialConn_write(data) :
            IF o.kind = "return" /\ o.n < Len(data)
            THEN ReturnsAfterWrite(op, param, args, data,
                                   [kind |-> "return", n |-> Len(data), exc |-> "none"],
                                   2, "true")
            ELSE ReturnsAfterWrite(op, param, args, data, o, 1,
                                   IF o.kind = "raise" THEN "raise"
                                   ELSE Bool(WriteComplete(o.n, data)))

\* a variant that writes the frame header before it validates the payload
_send_data_eager(op, param, args) ==
    IF ~_is_byte(param) \/ \E k \in 1..Len(args) : ~_is_byte(args[k])
    THEN IF is_open /\ _is_byte(param)
         THEN ReturnsAfterWrite(op, param, args, <<PROTOCOL_START, param>>,
                                [kind |-> "return", n |-> 2, exc |-> "none"], 1, "false")
         ELSE ReturnsWithoutWrite(op, param, args, "false", "none")
    ELSE LET data == BuildFrame(param, args) IN
         \E o \in serialConn_write(data) :
            ReturnsAfterWrite(op, param, args, data, o, 1,
                              IF o.kind = "raise" THEN "raise"
                              ELSE Bool(WriteComplete(o.n, data)))

_send_data(op, param, args) ==
    IF ~_is_byte(param) \/ \E k \in 1..Len(args) : ~_is_byte(args[k])
    THEN ReturnsWithoutWrite(op, param, args, "false", "none")
    ELSE LET data == BuildFrame(param, args) IN
         IF ~BytesOk(data)
         THEN ReturnsWithoutWrite(op, param, args, "raise", "ValueError")
         ELSE \E o \in serialConn_write(data) :
                ReturnsAfterWrite(op, param, args, data, o, 1,
                                  IF o.kind = "raise" THEN "raise"
                                  ELSE Bool(WriteComplete(o.n, data)))

----------------------------------------------------------------------------
(* Public methods *)

set_face(face) == _send_data(Op("set_face", <<face>>), PwnZeroParam.FACE, <<PwnFace[face]>>)

set_name(name) == _send_data(Op("set_name", name), PwnZeroParam.NAME, _str_to_bytes(name))

set_channel(channelInfo) ==
    _send_data(Op("set_channel", channelInfo), PwnZeroParam.CHANNEL, _str_to_bytes(channelInfo))

set_aps(apsInfo) == _send_data(Op("set_aps", apsInfo), PwnZeroParam.APS, _str_to_bytes(apsInfo))

set_uptime(uptimeInfo) ==
    _send_data(Op("set_uptime", uptimeInfo), PwnZeroParam.UPTIME, _str_to_bytes(uptimeInfo))

set_friend_sending == _send_data(Op("set_friend", <<>>), PwnZeroParam.FRIEND, <<>>)

set_friend == ReturnsWithoutWrite(Op("set_friend", <<>>), PwnZeroParam.FRIEND, <<>>, "false", "none")

set_mode(mode) == _send_data(Op("set_mode", <<mode>>), PwnZeroParam.MODE, <<PwnMode[mode]>>)

set_handshakes(handshakesInfo) ==
    _send_data(Op("set_handshakes", handshakesInfo), PwnZeroParam.HANDSHAKES, _str_to_bytes(handshakesInfo))

set_message(message) ==
    _send_data(Op("set_message", message), PwnZeroParam.MESSAGE, _str_to_bytes(message))

----------------------------------------------------------------------------
(* Construction and close *)

Init ==
    /\ obj = "none"
    /\ is_open = FALSE
    /\ openAttempts = 0
    /\ openFailed = FALSE
    /\ closeCalled = FALSE
    /\ raised = "none"
    /\ wire = <<>>
    /\ sent = <<>>
    /\ allComplete = TRUE
    /\ last = NoCall
    /\ nCalls = 0
    /\ pc = "idle"
    /\ tickIn = <<>>
    /\ tickLog = <<>>
    /\ nTicks = 0

\* a constructor that swallows the failure and hands out the instance anyway
init_swallowing ==
    /\ obj = "none"
    /\ openAttempts' = openAttempts + 1
    /\ \E opened \in BOOLEAN :
        /\ obj' = "live"
        /\ is_open' = TRUE
        /\ openFailed' = ~opened
        /\ raised' = "none"
    /\ UNCHANGED <<closeCalled, wire, sent, allComplete, last, nCalls, pc, tickIn,
                   tickLog, nTicks>>

\* __init__: serial.Serial(port, baud) either opens the port or raises, and
\* the exception is re-raised as RuntimeError
init ==
    /\ obj = "none"
    /\ openAttempts' = openAttempts + 1
    /\ \E opened \in BOOLEAN :
        IF opened
        THEN /\ obj' = "live"
             /\ is_open' = TRUE
             /\ openFailed' = FALSE
             /\ raised' = "none"
        ELSE /\ obj' = "failed"
             /\ is_open' = FALSE
             /\ openFailed' = TRUE
             /\ raised' = "RuntimeError"
    /\ UNCHANGED <<closeCalled, wire, sent, allComplete, last, nCalls, pc, tickIn,
                   tickLog, nTicks>>

close_noop ==
    /\ obj = "live"
    /\ pc = "idle"
    /\ closeCalled' = TRUE
    /\ raised' = "none"
    /\ UNCHANGED <<obj, is_open, openAttempts, openFailed, wire, sent, allComplete, last,
                   nCalls, pc, tickIn, tickLog, nTicks>>

\* close(): self._serialConn.close()
close ==
    /\ obj = "live"
    /\ pc = "idle"
    /\ is_open' = FALSE
    /\ closeCalled' = TRUE
    /\ raised' = "none"
    /\ UNCHANGED <<obj, openAttempts, openFailed, wire, sent, allComplete, last, nCalls,
                   pc, tickIn, tickLog, nTicks>>

----------------------------------------------------------------------------
(* The client calling the API directly *)

CanCall == obj = "live" /\ pc = "idle" /\ nCalls < MaxCalls

CallFrame == UNCHANGED <<obj, is_open, openAttempts, openFailed, closeCalled, pc, tickIn,
                         tickLog, nTicks>>

call_set_face == CanCall /\ CallFrame /\ \E face \in FaceInputs : set_face(face)

call_set_name == CanCall /\ CallFrame /\ \E s \in StrInputs : set_name(s)

call_set_channel == CanCall /\ CallFrame /\ \E s \in StrInputs : set_channel(s)

call_set_aps == CanCall /\ CallFrame /\ \E s \in StrInputs : set_aps(s)

call_set_uptime == CanCall /\ CallFrame /\ \E s \in StrInputs : set_uptime(s)

call_set_friend == CanCall /\ CallFrame /\ set_friend

call_set_mode == CanCall /\ CallFrame /\ \E mode \in ModeInputs : set_mode(mode)

call_set_handshakes == CanCall /\ CallFrame /\ \E s \in StrInputs : set_handshakes(s)

call_set_message == CanCall /\ CallFrame /\ \E s \in StrInputs : set_message(s)

call_send_data ==
    CanCall /\ CallFrame /\ \E param \in RawParams : _send_data(Op("_send_data", <<>>), param, <<>>)

Next ==
    \/ init
    \/ close
    \/ call_set_face
    \/ call_set_name
    \/ call_set_channel
    \/ call_set_aps
    \/ call_set_uptime
    \/ call_set_friend
    \/ call_set_mode
    \/ call_set_handshakes
    \/ call_set_message
    \/ call_send_data

Spec == Init /\ [][Next]_vars

----------------------------------------------------------------------------
(* on_ui_update *)

\* values of the ui mapping: None, a str, an int, a 2-tuple of strs, a face token
None == [t |-> "none", a |-> <<>>, b |-> <<>>]
StrVal(s) == [t |-> "str", a |-> s, b |-> <<>>]
IntVal(digits) == [t |-> "int", a |-> digits, b |-> <<>>]
PairVal(x, y) == [t |-> "pair", a |-> x, b |-> y]
FaceVal(token) == [t |-> "face", a |-> <<token>>, b |-> <<>>]
Unread == [t |-> "unread", a |-> <<>>, b |-> <<>>]

UIKeys == {"status", "mode", "channel", "uptime", "aps", "name", "face", "shakes"}

StatusInputs == {None, StrVal(<<"A">>)}
ModeUIInputs == {None, IntVal(<<"7">>), StrVal(<<"a", "u", "t", "o">>), StrVal(<<"A">>)}
ChannelInputs == {None, IntVal(<<"7">>)}
UptimeInputs == {None, StrVal(<<"U+0100">>)}
ApsInputs == {None, StrVal(<<"7">>), PairVal(<<"7">>, <<"A">>)}
NameInputs == {None, StrVal(<<"A", ">">>)}
FaceUIInputs == {None, FaceVal("LOOK_R"), FaceVal("unmapped")}
ShakesInputs == {None, PairVal(<<"7">>, <<"7">>)}

\* str(x) for a str or an int
PyStr(v) == v.a

\* str.upper() on the letters the mode strings are written in
Upper(c) ==
    CASE c = "a" -> "A"
      [] c = "u" -> "U"
      [] c = "t" -> "T"
      [] c = "o" -> "O"
      [] c = "n" -> "N"
      [] c = "l" -> "L"
      [] OTHER -> c

\* mode_mapping.get(mode_key), "None" when the key is not mapped
ModeMapping(mode_key) ==
    CASE mode_key = <<"A", "I">> -> "AI"
      [] mode_key = <<"A", "U", "T", "O">> -> "AUTO"
      [] mode_key = <<"M", "A", "N", "U", "A", "L">> -> "MANU"
      [] mode_key = <<"M", "A", "N", "U">> -> "MANU"
      [] OTHER -> "None"

\* the mode on_ui_update derives from ui.get('mode')
ModeOf(mode_str) ==
    IF mode_str.t = "str"
    THEN ModeMapping([k \in 1..Len(mode_str.a) |-> Upper(mode_str.a[k])])
    ELSE "None"

\* f"{x[0]} ({x[1]})" for a pair, str(x) for another value, '' for None
InfoStr(x) ==
    IF x.t = "pair" THEN x.a \o <<" ", "(">> \o x.b \o <<")">>
    ELSE IF x.t # "none" THEN PyStr(x) ELSE <<>>

\* str(name).replace('>', '')
Sanitize(s) == SelectSeq(s, LAMBDA c : c # ">")

\* the faces of pwnagotchi.ui.faces that face_mapping has a key for
MappedFaces == (DOMAIN PwnFace) \ {"NO_FACE", "DEFAULT_FACE"}

\* face_mapping.get(face, PwnFace.DEFAULT_FACE)
FaceOf(face) ==
    IF face.t = "face" /\ face.a[1] \in MappedFaces THEN face.a[1] ELSE "DEFAULT_FACE"

TickFrame == UNCHANGED <<obj, is_open, openAttempts, openFailed, closeCalled>>

\* the step reads v for key and makes the given send; an exception leaves
\* on_ui_update at once
TickSend(key, v, send, next) ==
    /\ send
    /\ tickLog' = Append(tickLog, [key |-> key, param |-> last'.param,
                                   args |-> last'.args, ret |-> last'.ret])
    /\ pc' = IF last'.ret = "raise" THEN "idle" ELSE next

\* the step reads v for key and sends nothing
TickSkip(next) ==
    /\ pc' = next
    /\ raised' = "none"
    /\ UNCHANGED <<wire, sent, allComplete, last, nCalls, tickLog>>

\* status = ui.get('status'); if status is not None: self.set_message(str(status))
ui_status ==
    /\ obj = "live" /\ pc = "idle" /\ nTicks < MaxTicks
    /\ TickFrame
    /\ nTicks' = nTicks + 1
    /\ \E status \in StatusInputs :
        /\ tickIn' = [k \in UIKeys |-> IF k = "status" THEN status ELSE Unread]
        /\ IF status # None
           THEN /\ set_message(PyStr(status))
                /\ tickLog' = <<[key |-> "status", param |-> last'.param,
                                 args |-> last'.args, ret |-> last'.ret]>>
                /\ pc' = IF last'.ret = "raise" THEN "idle" ELSE "mode"
           ELSE /\ pc' = "mode"
                /\ raised' = "none"
                /\ tickLog' = <<>>
                /\ UNCHANGED <<wire, sent, allComplete, last, nCalls>>

\* mode = mode_mapping.get(mode_key); if mode: self.set_mode(mode)
ui_mode ==
    /\ pc = "mode"
    /\ TickFrame /\ UNCHANGED nTicks
    /\ \E mode_str \in ModeUIInputs :
        /\ tickIn' = [tickIn EXCEPT !["mode"] = mode_str]
        /\ IF ModeOf(mode_str) # "None"
           THEN TickSend("mode", mode_str, set_mode(ModeOf(mode_str)), "channel")
           ELSE TickSkip("channel")

\* if channel is not None: self.set_channel(str(channel))
ui_channel ==
    /\ pc = "channel"
    /\ TickFrame /\ UNCHANGED nTicks
    /\ \E channel \in ChannelInputs :
        /\ tickIn' = [tickIn EXCEPT !["channel"] = channel]
        /\ IF channel # None
           THEN TickSend("channel", channel, set_channel(PyStr(channel)), "uptime")
           ELSE TickSkip("uptime")

\* if uptime is not None: self.set_uptime(str(uptime))
ui_uptime ==
    /\ pc = "uptime"
    /\ TickFrame /\ UNCHANGED nTicks
    /\ \E uptime \in UptimeInputs :
        /\ tickIn' = [tickIn EXCEPT !["uptime"] = uptime]
        /\ IF uptime # None
           THEN TickSend("uptime", uptime, set_uptime(PyStr(uptime)), "aps")
           ELSE TickSkip("aps")

\* self.set_aps(aps_str)
ui_aps ==
    /\ pc = "aps"
    /\ TickFrame /\ UNCHANGED nTicks
    /\ \E aps \in ApsInputs :
        /\ tickIn' = [tickIn EXCEPT !["aps"] = aps]
        /\ TickSend("aps", aps, set_aps(InfoStr(aps)), "name")

\* if name is not None: self.set_name(str(name).replace('>', ''))
ui_name ==
    /\ pc = "name"
    /\ TickFrame /\ UNCHANGED nTicks
    /\ \E name \in NameInputs :
        /\ tickIn' = [tickIn EXCEPT !["name"] = name]
        /\ IF name # None
           THEN TickSend("name", name, set_name(Sanitize(PyStr(name))), "face")
           ELSE TickSkip("face")

\* self.set_face(face_mapping.get(face, PwnFace.DEFAULT_FACE))
ui_face ==
    /\ pc = "face"
    /\ TickFrame /\ UNCHANGED nTicks
    /\ \E face \in FaceUIInputs :
        /\ tickIn' = [tickIn EXCEPT !["face"] = face]
        /\ TickSend("face", face, set_face(FaceOf(face)), "shakes")

\* self.set_handshakes(shakes_str); on_ui_update returns
ui_shakes ==
    /\ pc = "shakes"
    /\ TickFrame /\ UNCHANGED nTicks
    /\ \E shakes \in ShakesInputs :
        /\ tickIn' = [tickIn EXCEPT !["shakes"] = shakes]
        /\ TickSend("shakes", shakes, set_handshakes(InfoStr(shakes)), "idle")

NextUI ==
    \/ init
    \/ close
    \/ ui_status
    \/ ui_mode
    \/ ui_channel
    \/ ui_uptime
    \/ ui_aps
    \/ ui_name
    \/ ui_face
    \/ ui_shakes

SpecUI == Init /\ [][NextUI]_vars

----------------------------------------------------------------------------
(* Properties *)

\* a set_* / _send_data call has been made and `last` describes it
Called == last.op.name # "none"

\* the step is a set_* / _send_data call
IsCall == nCalls' = nCalls + 1

\* the transport reported that it wrote every byte it was handed
FullWrite == last.calls = 1 /\ last.kind = "return" /\ last.written = Len(last.data)

\* the transport reported fewer bytes than it was handed
ShortWrite == last.calls >= 1 /\ last.kind = "return" /\ last.written < Len(last.data)

\* C1: for every set_* operation other than set_friend, when the payload is
\* in range and the transport reports a full write, the bytes handed to the
\* transport are exactly [0x02, param_id] ++ payload ++ [0x03], of length
\* len(payload) + 3, with the operation's parameter id and the unsanitized
\* character codes (or the face / mode code) as payload; set_mode(AUTO)
\* hands over [0x02, 10, 5, 0x03].
C1_FrameHandedOver ==
    (/\ last.op.name \in DOMAIN WireParamId
     /\ WireValid(last.op, last.param)
     /\ FullWrite)
    => /\ last.data = <<2, WireParamId[last.op.name]>> \o WirePayload(last.op) \o <<3>>
       /\ Len(last.data) = Len(WirePayload(last.op)) + 3
       /\ (last.op = Op("set_mode", <<"AUTO">>) => last.data = <<2, 10, 5, 3>>)
       /\ (last.op = Op("set_name", <<"A", ">", "U+00FF">>)
              => last.data = <<2, 5, 65, 62, 255, 3>>)

C1_Witness ==
    /\ last.op = Op("set_name", <<"A", ">", "U+00FF">>)
    /\ FullWrite
    /\ last.data = <<2, 5, 65, 62, 255, 3>>

\* C2: every set_* operation returns true exactly when the frame was validly
\* encoded and the transport reported writing as many bytes as the frame
\* holds; after a short write it returns false.
C2_TrueIffEncodedAndWritten ==
    Called =>
        /\ (last.ret = "true") <=>
              (/\ WireValid(last.op, last.param)
               /\ last.calls = 1
               /\ last.kind = "return"
               /\ last.written = Len(WireFrame(last.op, last.param)))
        /\ (ShortWrite => last.ret = "false")

C2_Witness ==
    /\ last.op.name = "set_face"
    /\ ShortWrite
    /\ last.written = Len(last.data) - 1
    /\ last.ret = "false"

\* C3: a call whose parameter byte or payload holds a value outside 0..255
\* returns false, makes no transport write call, leaves the wire and the
\* connection as they were, and a following in-range call that the transport
\* writes in full returns true.
C3_InvalidByteRejected ==
    [][/\ (IsCall /\ last'.op.name # "set_friend" /\ ~WireValid(last'.op, last'.param))
          => /\ last'.ret = "false"
             /\ last'.calls = 0
             /\ raised' = "none"
             /\ wire' = wire
             /\ is_open' = is_open
       /\ (/\ Called /\ last.op.name # "set_friend" /\ ~WireValid(last.op, last.param)
           /\ IsCall /\ WireValid(last'.op, last'.param)
           /\ last'.kind = "return" /\ last'.written = Len(WireFrame(last'.op, last'.param)))
          => /\ last'.ret = "true"
             /\ wire' = wire \o WireFrame(last'.op, last'.param)]_vars

C3_Witness ==
    /\ last.op = Op("set_name", <<"A", "U+0100">>)
    /\ last.ret = "false"
    /\ last.calls = 0
    /\ is_open
    /\ wire # <<>>

\* C5: once close() has been called, no later call that reaches the
\* transport returns true (the write raises) and no byte is added to the wire.
C5_NoWriteAfterClose ==
    [][closeCalled =>
          /\ wire' = wire
          /\ (IsCall /\ last'.calls > 0) => (last'.ret = "raise" /\ last'.kind = "raise")
          /\ (IsCall => last'.ret # "true")]_vars

C5_Witness ==
    /\ closeCalled
    /\ last.calls = 1
    /\ ~last.wasOpen
    /\ last.kind = "raise"
    /\ wire # <<>>

\* C6: when the device cannot be opened, construction raises RuntimeError
\* after a single open attempt and yields no instance: no call is ever made
\* and nothing is written.
C6_ConnectErrorNoInstance ==
    /\ openAttempts <= 1
    /\ openFailed =>
          /\ obj = "failed"
          /\ raised = "RuntimeError"
          /\ openAttempts = 1
          /\ ~is_open
          /\ nCalls = 0
          /\ nTicks = 0
          /\ wire = <<>>

C6_Witness == openFailed /\ obj = "failed" /\ raised = "RuntimeError"

\* C7: set_friend returns false in every connection state, makes no
\* transport write call and changes neither the connection nor the wire.
C7_SetFriendAlwaysFalse ==
    [][(IsCall /\ last'.op.name = "set_friend")
          => /\ last'.ret = "false"
             /\ last'.calls = 0
             /\ raised' = "none"
             /\ wire' = wire
             /\ is_open' = is_open
             /\ closeCalled' = closeCalled
             /\ obj' = obj]_vars

C7_Witness ==
    /\ last.op.name = "set_friend"
    /\ last.ret = "false"
    /\ closeCalled
    /\ ~is_open
    /\ wire # <<>>

\* C8: a set_* operation makes at most one transport write call, carrying
\* the whole frame: exactly one when validation passes, none when it fails,
\* and no second call after a short or failed write.
C8_SingleWholeFrameWrite ==
    Called =>
        /\ last.calls <= 1
        /\ WireValid(last.op, last.param)
              => (last.calls = 1 /\ last.data = WireFrame(last.op, last.param))
        /\ ~WireValid(last.op, last.param) => last.calls = 0
        /\ last.written <= Len(last.data)

C8_Witness ==
    /\ ShortWrite
    /\ last.calls = 1
    /\ last.ret = "false"
    /\ last.op.name = "set_message"

\* C9: on an open connection whose writes were all complete, the wire holds
\* the frames of exactly the calls that returned true, in call order.
C9_WireIsFramesInCallOrder ==
    (obj = "live" /\ allComplete) => wire = sent

C9_Witness ==
    /\ allComplete
    /\ nCalls = 2
    /\ last.op.name = "set_face"
    /\ wire = <<2, 10, 5, 3, 2, 4, 30, 3>>

\* C4: a set_* operation whose transport write fails with an I/O error on an
\* open connection returns false, and on_ui_update is not left by an exception.
C4_WriteErrorReturnsFalse ==
    (last.calls = 1 /\ last.wasOpen /\ last.kind = "raise")
        => (last.ret = "false" /\ raised # "SerialException")

\* the sends a tick makes for the values it read, in order: <<key, param>>
TickPlan ==
    SelectSeq(<<[key |-> "status", param |-> 12], [key |-> "mode", param |-> 10],
                [key |-> "channel", param |-> 6], [key |-> "uptime", param |-> 8],
                [key |-> "aps", param |-> 7], [key |-> "name", param |-> 5],
                [key |-> "face", param |-> 4], [key |-> "shakes", param |-> 11]>>,
              LAMBDA e :
                CASE e.key \in {"aps", "face", "shakes"} -> TRUE
                  [] e.key = "mode" -> ModeOf(tickIn["mode"]) # "None"
                  [] OTHER -> tickIn[e.key].t \notin {"none", "unread"})

\* C10: a finished on_ui_update tick has attempted its sends in the order
\* MESSAGE, MODE, CHANNEL, UPTIME, APS, NAME, FACE, HANDSHAKES: APS, FACE and
\* HANDSHAKES on every tick, the others only when their key is present (MODE:
\* maps to a known mode); a send that returned false stops no later send.
C10_TickSendsInFixedOrder ==
    (nTicks > 0 /\ pc = "idle")
        => [k \in 1..Len(tickLog) |-> [key |-> tickLog[k].key, param |-> tickLog[k].param]]
              = TickPlan

====
